---- MODULE Spec2Model ----
(***************************************************************************)
(* Model of the webhook ingestion pipeline: the FastAPI boundary and the   *)
(* queue worker of main.py, the payload validation of models.py and the    *)
(* transactional writer / failure sink of db.py.                           *)
(*                                                                         *)
(* Threads of control: the event loop runs the HTTP handler, the worker    *)
(* coroutine and the shutdown handler (one at a time, switching only at an *)
(* await); asyncio.to_thread runs insert_data, save_failed_payload and     *)
(* close_pool on helper threads, truly concurrent with the event loop.     *)
(***************************************************************************)
EXTENDS Integers, Sequences, FiniteSets, TLC

(***************************************************************************)
(* Bounds of the model.                                                    *)
(***************************************************************************)
\* number of POST /webhook requests in a run
MaxRequests == 3

\* main.py:15  MAX_QUEUE = int(os.getenv("MAX_QUEUE", "10000")); the model
\* runs the service configured with capacity 2.
MAX_QUEUE == 2

\* db.py:107: the characters of the error text that are stored
ERROR_MAX == 5000

(***************************************************************************)
(* JSON scalars as they arrive.  Text-typed fields are TLA+ strings, with  *)
(* None for JSON null / an absent key.  Type-flexible fields (numbers that *)
(* may arrive as strings) are tagged: k is the kind, n the numeric value.  *)
(*   "null"   null / absent          "int"    the integer n                *)
(*   "float"  the float n.0          "numstr" the string "n"               *)
(*   "text"   a non-numeric string such as "N/A"                           *)
(*   "empty"  the empty string                                             *)
(***************************************************************************)
None == "None"

JNull == [k |-> "null", n |-> 0]

JInt(n) == [k |-> "int", n |-> n]

JFloat(n) == [k |-> "float", n |-> n]

JNumStr(n) == [k |-> "numstr", n |-> n]

JText == [k |-> "text", n |-> 0]

JEmpty == [k |-> "empty", n |-> 0]

\* a value that failed to validate
Invalid == [k |-> "invalid", n |-> 0]

(***************************************************************************)
(* models.py: field validation.                                            *)
(***************************************************************************)
\* Optional[Union[int, float]]: numbers pass, a numeric string is coerced
\* to a number, any other string is a validation error.
validate_number(v) ==
    CASE v.k = "null" -> JNull
      [] v.k = "int" -> v
      [] v.k = "float" -> v
      [] v.k = "numstr" -> JInt(v.n)
      [] OTHER -> Invalid

\* Optional[Union[int, str]]: an integer or any string passes; a float
\* with integral value becomes the integer.
validate_int_or_str(v) ==
    CASE v.k = "float" -> JInt(v.n)
      [] OTHER -> v

(***************************************************************************)
(* db.py: casting helpers.  SQL values: SqlNull or SqlNum(n).              *)
(***************************************************************************)
SqlNull == [k |-> "null", n |-> 0]

SqlNum(n) == [k |-> "num", n |-> n]

\* as_int: None and "" give None; an int passes; anything else goes
\* through int(str(value)), which fails on "N/A" and on "5.0".
as_int(v) ==
    CASE v.k \in {"null", "empty"} -> SqlNull
      [] v.k = "int" -> SqlNum(v.n)
      [] v.k = "numstr" -> SqlNum(v.n)
      [] OTHER -> SqlNull

\* as_float: None and "" give None; int and float pass as float;
\* anything else goes through float(str(value)).
as_float(v) ==
    CASE v.k \in {"null", "empty"} -> SqlNull
      [] v.k \in {"int", "float"} -> SqlNum(v.n)
      [] v.k = "numstr" -> SqlNum(v.n)
      [] OTHER -> SqlNull

(***************************************************************************)
(* Optional values: Absent, or Some(x).                                    *)
(***************************************************************************)
Absent == << >>

Some(x) == <<x>>

IsSome(o) == Len(o) = 1

The(o) == o[1]

\* `x or []` / a list field left out of the JSON
OrEmpty(o) == IF IsSome(o) THEN The(o) ELSE << >>

(***************************************************************************)
(* models.py: the WebhookPayload constructor.  A raw payload is a record   *)
(*   [properties |-> Option([Restaurant, Customer, Order : Option(...),    *)
(*                           Tax, Discount, OrderItem : Option(Seq(...))])]*)
(* Every field is Optional and unknown keys are ignored, so the only       *)
(* validation errors are values of the wrong type.                         *)
(***************************************************************************)
\* PartPayment (models.py:26-32)
parse_PartPayment(pp) ==
    [payment_type |-> pp.payment_type, amount |-> validate_number(pp.amount)]

\* Order (models.py:35-61)
parse_Order(o) ==
    [orderID |-> validate_int_or_str(o.orderID),
     total |-> validate_number(o.total),
     part_payments |->
        [i \in DOMAIN o.part_payments |-> parse_PartPayment(o.part_payments[i])]]

\* Tax and Discount (models.py:96-112)
parse_Tax(t) == [title |-> t.title, amount |-> validate_number(t.amount)]

\* Addon (models.py:64-74)
parse_Addon(a) == [addon_id |-> a.addon_id, name |-> a.name]

\* OrderItem (models.py:77-93)
parse_OrderItem(it) ==
    [itemid |-> validate_int_or_str(it.itemid),
     name |-> it.name,
     addon |-> [i \in DOMAIN it.addon |-> parse_Addon(it.addon[i])]]

\* Properties (models.py:115-124): the three sections default to None, the
\* three lists to [].
parse_Properties(p) ==
    [Restaurant |-> p.Restaurant,
     Customer |-> p.Customer,
     Order |-> IF IsSome(p.Order) THEN Some(parse_Order(The(p.Order))) ELSE Absent,
     Tax |-> [i \in DOMAIN OrEmpty(p.Tax) |-> parse_Tax(OrEmpty(p.Tax)[i])],
     Discount |-> [i \in DOMAIN OrEmpty(p.Discount) |-> parse_Tax(OrEmpty(p.Discount)[i])],
     OrderItem |-> [i \in DOMAIN OrEmpty(p.OrderItem) |-> parse_OrderItem(OrEmpty(p.OrderItem)[i])]]

\* WebhookPayload (models.py:127-133)
parse_WebhookPayload(raw) ==
    [properties |-> IF IsSome(raw.properties)
                    THEN Some(parse_Properties(The(raw.properties)))
                    ELSE Absent]

\* whether a parsed properties tree holds a value that failed to validate
HasInvalid(p) ==
    \/ IF IsSome(p.Order)
       THEN \/ The(p.Order).total = Invalid
            \/ \E i \in DOMAIN The(p.Order).part_payments :
                  The(p.Order).part_payments[i].amount = Invalid
       ELSE FALSE
    \/ \E i \in DOMAIN p.Tax : p.Tax[i].amount = Invalid
    \/ \E i \in DOMAIN p.Discount : p.Discount[i].amount = Invalid

\* pydantic raises ValidationError when any field fails
ValidationError(raw) ==
    IF IsSome(raw.properties)
    THEN HasInvalid(parse_Properties(The(raw.properties)))
    ELSE FALSE

(***************************************************************************)
(* The database.  A table is the sequence of its rows in insertion order   *)
(* (two rows may be equal in every modelled column).                       *)
(***************************************************************************)
BusinessTables ==
    {"restaurants", "customers", "orders", "taxes", "discounts",
     "order_items", "addons", "part_payments"}

EmptyDb ==
    [restaurants |-> << >>, customers |-> << >>, orders |-> << >>,
     taxes |-> << >>, discounts |-> << >>, order_items |-> << >>,
     addons |-> << >>, part_payments |-> << >>, failed_payloads |-> << >>]

\* the columns named in a table's ON CONFLICT clause
Key(tbl, r) ==
    CASE tbl = "restaurants" -> <<r.rest_id>>
      [] tbl = "customers" -> <<r.phone, r.gstin>>
      [] tbl = "orders" -> <<r.order_id, r.rest_id>>
      [] tbl \in {"taxes", "discounts"} -> <<r.order_id, r.rest_id, r.title>>
      [] tbl = "order_items" -> <<r.itemid, r.order_id, r.rest_id>>
      [] tbl = "addons" -> <<r.addon_id, r.itemid, r.order_id, r.rest_id>>
      [] tbl = "part_payments" -> <<r.order_id, r.rest_id, r.payment_type, r.amount>>

\* whether one of those columns is NULL in row r
KeyHasNull(tbl, r) ==
    CASE tbl = "restaurants" -> r.rest_id = None
      [] tbl = "customers" -> r.phone = None \/ r.gstin = None
      [] tbl = "orders" -> r.order_id = SqlNull \/ r.rest_id = None
      [] tbl \in {"taxes", "discounts"} -> r.title = None
      [] tbl = "order_items" -> r.itemid = SqlNull
      [] tbl = "addons" -> r.addon_id = None \/ r.itemid = SqlNull
      [] tbl = "part_payments" -> r.payment_type = None \/ r.amount = SqlNull

\* ON CONFLICT (key columns): the new row conflicts with an existing row of
\* equal key.  A unique index never treats two NULLs as equal, so a row
\* with a NULL key column conflicts with nothing.
Conflicts(tbl, rows, r) ==
    {i \in DOMAIN rows : ~KeyHasNull(tbl, r) /\ Key(tbl, rows[i]) = Key(tbl, r)}

\* variant: ON CONFLICT (...) DO UPDATE, the new values replace the row
InsertOrSkip_update(tx, tbl, r) ==
    IF Conflicts(tbl, tx[tbl], r) = {}
    THEN [tx EXCEPT ![tbl] = Append(@, r)]
    ELSE [tx EXCEPT ![tbl] = [i \in DOMAIN @ |->
                                 IF i \in Conflicts(tbl, tx[tbl], r) THEN r ELSE @[i]]]

\* INSERT ... ON CONFLICT (...) DO NOTHING
InsertOrSkip(tx, tbl, r) ==
    IF Conflicts(tbl, tx[tbl], r) = {}
    THEN [tx EXCEPT ![tbl] = Append(@, r)]
    ELSE tx

\* INSERT INTO customers ... ON CONFLICT (phone, gstin) DO UPDATE SET name,
\* address ... RETURNING customer_id (db.py:170-189).  A new row takes the
\* next surrogate id.
UpsertCustomer(tx, c) ==
    LET hit == Conflicts("customers", tx.customers, c)
    IN  IF hit = {}
        THEN LET id == Len(tx.customers) + 1
             IN  [tx |-> [tx EXCEPT !.customers =
                             Append(@, [customer_id |-> id, phone |-> c.phone,
                                        gstin |-> c.gstin, name |-> c.name,
                                        address |-> c.address])],
                  customer_id |-> id]
        ELSE LET i == CHOOSE j \in hit : TRUE
             IN  [tx |-> [tx EXCEPT !.customers[i].name = c.name,
                                    !.customers[i].address = c.address],
                  customer_id |-> tx.customers[i].customer_id]

(***************************************************************************)
(* db.py: insert_data.                                                     *)
(***************************************************************************)
\* db.py:124-145: the checks made before a connection is asked for
fail_fast(parsed) ==
    IF ~IsSome(parsed.properties)
    THEN TRUE
    ELSE LET props == The(parsed.properties)
         IN  IF ~IsSome(props.Restaurant) \/ ~IsSome(props.Customer) \/ ~IsSome(props.Order)
             THEN TRUE
             ELSE \/ The(props.Restaurant).restID = None
                  \/ as_int(The(props.Order).orderID) = SqlNull

\* a statement: the table and the row of values bound to it
Stmt(tbl, row) == [tbl |-> tbl, row |-> row]

RECURSIVE Concat(_)
Concat(seqs) == IF seqs = << >> THEN << >> ELSE Head(seqs) \o Concat(Tail(seqs))

\* variant: the addons of an item are inserted before the item
ItemStmts_addons_first(it, order_id, rest_id) ==
    LET item_id == as_int(it.itemid)
    IN  [i \in DOMAIN it.addon |->
              Stmt("addons", [addon_id |-> it.addon[i].addon_id, itemid |-> item_id,
                              order_id |-> order_id, rest_id |-> rest_id,
                              name |-> it.addon[i].name])]
        \o <<Stmt("order_items", [itemid |-> item_id, order_id |-> order_id,
                                  rest_id |-> rest_id, name |-> it.name])>>

\* db.py:276-329: one order item, then its addons
ItemStmts(it, order_id, rest_id) ==
    LET item_id == as_int(it.itemid)
    IN  <<Stmt("order_items", [itemid |-> item_id, order_id |-> order_id,
                               rest_id |-> rest_id, name |-> it.name])>>
        \o [i \in DOMAIN it.addon |->
              Stmt("addons", [addon_id |-> it.addon[i].addon_id, itemid |-> item_id,
                              order_id |-> order_id, rest_id |-> rest_id,
                              name |-> it.addon[i].name])]

\* db.py:147-349: the statements insert_data executes, in its order.  The
\* orders row takes its customer_id from the customer statement's RETURNING.
Stmts(parsed) ==
    LET props == The(parsed.properties)
        restaurant == The(props.Restaurant)
        customer == The(props.Customer)
        order == The(props.Order)
        rest_id == restaurant.restID
        order_id == as_int(order.orderID)
    IN  << Stmt("restaurants", [rest_id |-> rest_id, res_name |-> restaurant.res_name]),
           Stmt("customers", [phone |-> customer.phone, gstin |-> customer.gstin,
                              name |-> customer.name, address |-> customer.address]),
           Stmt("orders", [order_id |-> order_id, rest_id |-> rest_id,
                           customer_id |-> 0, total |-> as_float(order.total)]) >>
        \o [i \in DOMAIN props.Tax |->
              Stmt("taxes", [order_id |-> order_id, rest_id |-> rest_id,
                             title |-> props.Tax[i].title,
                             amount |-> as_float(props.Tax[i].amount)])]
        \o [i \in DOMAIN props.Discount |->
              Stmt("discounts", [order_id |-> order_id, rest_id |-> rest_id,
                                 title |-> props.Discount[i].title,
                                 amount |-> as_float(props.Discount[i].amount)])]
        \o Concat([i \in DOMAIN props.OrderItem |->
                     ItemStmts(props.OrderItem[i], order_id, rest_id)])
        \o [i \in DOMAIN order.part_payments |->
              Stmt("part_payments", [order_id |-> order_id, rest_id |-> rest_id,
                                     payment_type |-> order.part_payments[i].payment_type,
                                     amount |-> as_float(order.part_payments[i].amount)])]

\* variant: the sink stores the validated model's dump, not the raw payload
SaveStmts_parsed(raw_payload, error_message) ==
    << Stmt("failed_payloads", [payload |-> parse_WebhookPayload(raw_payload),
                                error |-> error_message]) >>

\* an error text is modelled by its fixed prefix and its length in
\* characters
Message(prefix, len) == [prefix |-> prefix, len |-> len]

\* text[:n]
Slice(text, n) == [text EXCEPT !.len = IF @ > n THEN n ELSE @]

\* db.py:97-109: the one statement of save_failed_payload
SaveStmts(raw_payload, error_message) ==
    << Stmt("failed_payloads", [payload |-> raw_payload,
                                error |-> Slice(error_message, ERROR_MAX)]) >>

\* variant: whatever fails in save_failed_payload reaches its caller
Propagates_all(fn, exc) == exc

\* what the caller of the thread's function sees when the function ends
\* with exc pending: insert_data lets it through, save_failed_payload
\* catches every Exception and returns (db.py:111-113)
Propagates(fn, exc) == IF fn = "save_failed_payload" THEN FALSE ELSE exc

\* cur.execute of one statement inside the open transaction
ExecStmt(tx, customer_id, s) ==
    CASE s.tbl = "customers" -> UpsertCustomer(tx, s.row)
      [] s.tbl = "orders" ->
            [tx |-> InsertOrSkip(tx, "orders", [s.row EXCEPT !.customer_id = customer_id]),
             customer_id |-> customer_id]
      [] s.tbl = "failed_payloads" ->
            [tx |-> [tx EXCEPT !.failed_payloads = Append(@, s.row)],
             customer_id |-> customer_id]
      [] OTHER -> [tx |-> InsertOrSkip(tx, s.tbl, s.row), customer_id |-> customer_id]

(***************************************************************************)
(* The request bodies the partner sends in the model.                      *)
(***************************************************************************)
Props(rest, cust, order, tax, disc, items) ==
    [properties |-> Some([Restaurant |-> rest, Customer |-> cust, Order |-> order,
                          Tax |-> tax, Discount |-> disc, OrderItem |-> items])]

Rest1 == [restID |-> "R1", res_name |-> "Miya"]

CustA == [phone |-> "900", gstin |-> "G1", name |-> "Ann", address |-> "A St"]

TaxGst(n) == [title |-> "GST", amount |-> JInt(n)]

\* a complete order: one tax, one item with one addon, and two part
\* payments of the same type and amount (5 and 5.0)
PFull ==
    Props(Some(Rest1), Some(CustA),
          Some([orderID |-> JInt(1), total |-> JInt(10),
                part_payments |-> << [payment_type |-> "cash", amount |-> JInt(5)],
                                     [payment_type |-> "cash", amount |-> JFloat(5)] >>]),
          Some(<<TaxGst(1)>>), Absent,
          Some(<< [itemid |-> JInt(7), name |-> "Kebab",
                   addon |-> << [addon_id |-> "a1", name |-> "Dip"] >>] >>))

\* the same natural keys as PFull with every other attribute changed; the
\* order id arrives as the string "1"; no OrderItem key at all
PAgain ==
    Props(Some([restID |-> "R1", res_name |-> "Miya Kebabs"]),
          Some([phone |-> "900", gstin |-> "G1", name |-> "Ann B", address |-> "B St"]),
          Some([orderID |-> JNumStr(1), total |-> JNumStr(20), part_payments |-> << >>]),
          Some(<<TaxGst(2)>>), Some(<< [title |-> "PROMO", amount |-> JInt(3)] >>),
          Absent)

\* structurally invalid: properties.Order is missing
PNoOrder == Props(Some(Rest1), Some(CustA), Absent, Absent, Absent, Some(<< >>))

\* well-formed except for a non-numeric order.total ("N/A")
PTotalNA ==
    Props(Some(Rest1), Some(CustA),
          Some([orderID |-> JInt(2), total |-> JText, part_payments |-> << >>]),
          Absent, Absent, Some(<< >>))

\* key fields left out: no gstin, a tax without title, two identical part
\* payments without payment_type
PNullKeys ==
    Props(Some(Rest1),
          Some([phone |-> "900", gstin |-> None, name |-> "Bob", address |-> None]),
          Some([orderID |-> JInt(3), total |-> JNull,
                part_payments |-> << [payment_type |-> None, amount |-> JInt(5)],
                                     [payment_type |-> None, amount |-> JInt(5)] >>]),
          Some(<< [title |-> None, amount |-> JInt(1)] >>), Absent, Some(<< >>))

\* no properties at all
PNoProps == [properties |-> Absent]

\* restID is the empty string
PEmptyRestId ==
    Props(Some([restID |-> "", res_name |-> "Miya"]), Some(CustA),
          Some([orderID |-> JInt(4), total |-> JInt(10), part_payments |-> << >>]),
          Absent, Absent, Some(<< >>))

\* orderID does not coerce to an integer
PBadOrderId ==
    Props(Some(Rest1), Some(CustA),
          Some([orderID |-> JText, total |-> JInt(10), part_payments |-> << >>]),
          Absent, Absent, Some(<< >>))

Payloads ==
    {PFull, PAgain, PNoOrder, PTotalNA, PNullKeys, PNoProps, PEmptyRestId, PBadOrderId}

\* a request body: bytes that are not JSON, JSON that is not an object (an
\* array, a scalar), or a JSON object
NotJson == [kind |-> "not_json", payload |-> Absent]

NotObject == [kind |-> "not_object", payload |-> Absent]

Obj(p) == [kind |-> "object", payload |-> Some(p)]

Bodies == {NotJson, NotObject} \cup {Obj(p) : p \in Payloads}

\* the mixes of bodies the requests of one run are drawn from
Feeds ==
    { {Obj(PFull), Obj(PAgain), NotObject},
      {Obj(PNullKeys), Obj(PNoOrder)},
      {Obj(PTotalNA), Obj(PFull), NotJson},
      {Obj(PEmptyRestId), Obj(PBadOrderId), Obj(PNoProps)} }

(***************************************************************************)
(* State.                                                                  *)
(***************************************************************************)
VARIABLES
    feed,        \* the bodies the partner sends in this run
    pool,        \* db.pool: "uninit" (None), "open", "closed" (closeall ran, None again)
    used,        \* connections checked out of the pool
    db,          \* the committed database: table name -> rows
    QUEUE,       \* main.QUEUE: the raw payloads waiting, oldest first
    unfinished,  \* QUEUE's count of payloads put and not yet task_done
    w,           \* the worker task: [pc, cur]
    th,          \* the helper thread of asyncio.to_thread the worker started:
                 \* its function, position, argument, statements, open
                 \* transaction (tx, statements executed i), whether it holds
                 \* a connection, whether a transaction began, whether an
                 \* exception is being raised
    sd,          \* the shutdown handler: "idle", "cancel_sent", "done"
    http,        \* the requests answered so far: [kind of body, status, json]
    db0          \* history: the committed database when w.cur was dequeued

vars == <<feed, pool, used, db, QUEUE, unfinished, w, th, sd, http, db0>>

NoThread ==
    [fn |-> "none", pc |-> "idle", arg |-> Absent, stmts |-> << >>, i |-> 0,
     tx |-> EmptyDb, customer_id |-> 0, conn |-> FALSE, began |-> FALSE, exc |-> FALSE,
     raised |-> FALSE]

Init ==
    /\ feed \in Feeds
    /\ pool = "uninit"
    /\ used = 0
    /\ db = EmptyDb
    /\ QUEUE = << >>
    /\ unfinished = 0
    /\ w = [pc |-> "not_started", cur |-> Absent]
    /\ th = NoThread
    /\ sd = "idle"
    /\ http = << >>
    /\ db0 = EmptyDb

(***************************************************************************)
(* main.py: the HTTP boundary.                                             *)
(***************************************************************************)
\* variant: the capacity is never checked
put_nowait_unbounded(q, item) == [full |-> FALSE, q |-> Append(q, item)]

\* asyncio.Queue.put_nowait on a queue of maxsize MAX_QUEUE (a maxsize of
\* 0 or less means unbounded): QueueFull, or the item appended
put_nowait(q, item) ==
    IF MAX_QUEUE > 0 /\ Len(q) >= MAX_QUEUE
    THEN [full |-> TRUE, q |-> q]
    ELSE [full |-> FALSE, q |-> Append(q, item)]

\* main.py:54-59: QueueFull is re-raised to the caller
enqueue_payload(q, payload) == put_nowait(q, payload)

\* variant: the handler validates the schema and refuses what fails it
webhook_handler_validating(body, q) ==
    IF body.kind # "object"
    THEN [status |-> 400, json |-> [detail |-> "Invalid JSON body"], q |-> q]
    ELSE IF ValidationError(The(body.payload))
    THEN [status |-> 422, json |-> [detail |-> "Unprocessable"], q |-> q]
    ELSE IF enqueue_payload(q, The(body.payload)).full
    THEN [status |-> 503, json |-> [detail |-> "Ingestion queue full, try again later."],
          q |-> q]
    ELSE [status |-> 200, json |-> [status |-> "accepted"],
          q |-> enqueue_payload(q, The(body.payload)).q]

\* main.py:96-121: the status and JSON body of the response, and the queue
\* afterwards.  The route declares no status_code, so a returned dict is
\* sent with 200; an HTTPException carries its own status.
webhook_handler(body, q) ==
    IF body.kind = "not_json"
    THEN [status |-> 400, json |-> [detail |-> "Invalid JSON body"], q |-> q]
    ELSE IF body.kind # "object"
    THEN [status |-> 400, json |-> [detail |-> "Body must be a JSON object"], q |-> q]
    ELSE LET r == enqueue_payload(q, The(body.payload))
         IN  IF r.full
             THEN [status |-> 503,
                   json |-> [detail |-> "Ingestion queue full, try again later."],
                   q |-> q]
             ELSE [status |-> 200, json |-> [status |-> "accepted"], q |-> r.q]

Serving == w.pc # "not_started" /\ sd = "idle"

\* POST /webhook
Webhook(body) ==
    /\ Serving
    /\ Len(http) < MaxRequests
    /\ LET r == webhook_handler(body, QUEUE)
       IN  /\ QUEUE' = r.q
           /\ unfinished' = unfinished + (Len(r.q) - Len(QUEUE))
           /\ http' = Append(http, [kind |-> body.kind, status |-> r.status, json |-> r.json])
    /\ UNCHANGED <<feed, pool, used, db, w, th, sd, db0>>

(***************************************************************************)
(* main.py: startup and the worker.  The worker runs on the event loop and *)
(* can be switched out, or cancelled, only at one of its awaits.           *)
(***************************************************************************)
\* main.py:65-71 with db.py:33-40
Startup ==
    /\ w.pc = "not_started"
    /\ pool' = "open"
    /\ w' = [w EXCEPT !.pc = "get"]
    /\ UNCHANGED <<feed, used, db, QUEUE, unfinished, th, sd, http, db0>>

\* asyncio.to_thread(insert_data, parsed): the thread re-derives parsed
\* from the raw payload it is given
SpawnInsert(raw) ==
    [NoThread EXCEPT !.fn = "insert_data", !.pc = "start", !.arg = Some(raw)]

\* asyncio.to_thread(save_failed_payload, raw_payload, message)
SpawnSave(raw, error_message) ==
    [NoThread EXCEPT !.fn = "save_failed_payload", !.pc = "start", !.arg = Some(raw),
                     !.stmts = SaveStmts(raw, error_message)]

Cancelling == sd = "cancel_sent"

\* main.py:35: f"Validation error: {e}".  The text of a pydantic
\* ValidationError is a function of the payload, a few lines for each field
\* that failed; the payloads sent here have at most one such field.
ValidationMessage(raw_payload) == Message("Validation error: ", 300)

\* main.py:47: f"DB insert error: {e}".  The ValueErrors of insert_data's
\* own checks carry fixed texts (db.py:125, 133, 145); what the driver or
\* the pool raises has any length, here a short one and one longer than
\* the sink stores.
InsertMessages(raw_payload) ==
    IF fail_fast(parse_WebhookPayload(raw_payload))
    THEN {Message("DB insert error: ", 74)}
    ELSE {Message("DB insert error: ", n) : n \in {80, ERROR_MAX + 1}}

\* variant: a validation failure escapes the loop and ends the worker task
WorkerDequeue_crashing ==
    /\ w.pc = "get"
    /\ ~Cancelling
    /\ QUEUE # << >>
    /\ LET raw_payload == Head(QUEUE)
       IN  /\ QUEUE' = Tail(QUEUE)
           /\ db0' = db
           /\ IF ValidationError(raw_payload)
              THEN /\ th' = th
                   /\ w' = [pc |-> "stopped", cur |-> Some(raw_payload)]
              ELSE /\ th' = SpawnInsert(raw_payload)
                   /\ w' = [pc |-> "await_insert", cur |-> Some(raw_payload)]
    /\ UNCHANGED <<feed, pool, used, db, unfinished, sd, http>>

\* variant: the worker takes the payload enqueued last
WorkerDequeue_lifo ==
    /\ w.pc = "get"
    /\ ~Cancelling
    /\ QUEUE # << >>
    /\ LET raw_payload == QUEUE[Len(QUEUE)]
       IN  /\ QUEUE' = SubSeq(QUEUE, 1, Len(QUEUE) - 1)
           /\ db0' = db
           /\ IF ValidationError(raw_payload)
              THEN /\ th' = SpawnSave(raw_payload, ValidationMessage(raw_payload))
                   /\ w' = [pc |-> "await_save_validation", cur |-> Some(raw_payload)]
              ELSE /\ th' = SpawnInsert(raw_payload)
                   /\ w' = [pc |-> "await_insert", cur |-> Some(raw_payload)]
    /\ UNCHANGED <<feed, pool, used, db, unfinished, sd, http>>

\* main.py:24-41: QUEUE.get() returns a payload, it is validated, and the
\* worker awaits the helper thread it starts
WorkerDequeue ==
    /\ w.pc = "get"
    /\ ~Cancelling
    /\ QUEUE # << >>
    /\ LET raw_payload == Head(QUEUE)
       IN  /\ QUEUE' = Tail(QUEUE)
           /\ db0' = db
           /\ IF ValidationError(raw_payload)
              THEN /\ th' = SpawnSave(raw_payload, ValidationMessage(raw_payload))
                   /\ w' = [pc |-> "await_save_validation", cur |-> Some(raw_payload)]
              ELSE /\ th' = SpawnInsert(raw_payload)
                   /\ w' = [pc |-> "await_insert", cur |-> Some(raw_payload)]
    /\ UNCHANGED <<feed, pool, used, db, unfinished, sd, http>>

\* variant: insert_data is started and not awaited; the worker takes the
\* next payload while the write may still be running
WorkerInsertDone_eager ==
    /\ w.pc = "await_insert"
    /\ ~Cancelling
    /\ th' = NoThread
    /\ w' = [pc |-> "get", cur |-> Absent]
    /\ unfinished' = unfinished - 1
    /\ UNCHANGED <<feed, pool, used, db, QUEUE, sd, http, db0>>

\* main.py:41-51: insert_data returned or raised
WorkerInsertDone ==
    /\ w.pc = "await_insert"
    /\ ~Cancelling
    /\ th.pc = "done"
    /\ IF th.raised
       THEN /\ \E error_message \in InsertMessages(The(w.cur)) :
                  th' = SpawnSave(The(w.cur), error_message)
            /\ w' = [w EXCEPT !.pc = "await_save_insert"]
            /\ UNCHANGED unfinished
       ELSE /\ th' = NoThread
            /\ w' = [pc |-> "get", cur |-> Absent]
            /\ unfinished' = unfinished - 1
    /\ UNCHANGED <<feed, pool, used, db, QUEUE, sd, http, db0>>

\* main.py:32-37 and 44-51: save_failed_payload returned; task_done.  An
\* exception out of it would be raised inside an except clause of the loop:
\* the finally runs and the worker task ends with it.
WorkerSaveDone ==
    /\ w.pc \in {"await_save_validation", "await_save_insert"}
    /\ ~Cancelling
    /\ th.pc = "done"
    /\ th' = NoThread
    /\ w' = IF th.raised THEN [w EXCEPT !.pc = "stopped"] ELSE [pc |-> "get", cur |-> Absent]
    /\ unfinished' = unfinished - 1
    /\ UNCHANGED <<feed, pool, used, db, QUEUE, sd, http, db0>>

\* CancelledError is thrown into the worker at the await it is suspended
\* on.  It is not an Exception, so no except clause of the loop catches it;
\* inside the try the finally runs task_done.  The helper thread is not
\* interrupted.
WorkerCancelled ==
    /\ Cancelling
    /\ w.pc \notin {"not_started", "stopped"}
    /\ unfinished' = IF w.pc = "get" THEN unfinished ELSE unfinished - 1
    /\ w' = [w EXCEPT !.pc = "stopped"]
    /\ UNCHANGED <<feed, pool, used, db, QUEUE, th, sd, http, db0>>

(***************************************************************************)
(* db.py: the helper thread.  insert_data and save_failed_payload both run *)
(* their statements inside `with get_connection() as conn`.                *)
(***************************************************************************)
\* the statements the thread's function executes
ThreadStmts ==
    IF th.fn = "insert_data"
    THEN Stmts(parse_WebhookPayload(The(th.arg)))
    ELSE th.stmts

\* the function ends: returning, or raising exc
Finish(exc) == [th EXCEPT !.pc = "done", !.exc = exc, !.raised = Propagates(th.fn, exc)]

\* db.py:124-147 and 55-57: insert_data's checks, then get_connection up
\* to its yield.  getconn itself may raise (the server cannot be reached).
ThreadGetConn ==
    /\ th.pc = "start"
    /\ \/ /\ th.fn = "insert_data"
          /\ fail_fast(parse_WebhookPayload(The(th.arg)))
          /\ th' = Finish(TRUE)
          /\ UNCHANGED used
       \/ /\ th.fn = "insert_data" => ~fail_fast(parse_WebhookPayload(The(th.arg)))
          /\ \/ /\ pool # "open"
                /\ th' = Finish(TRUE)
                /\ UNCHANGED used
             \/ /\ pool = "open"
                /\ th' = Finish(TRUE)
                /\ UNCHANGED used
             \/ /\ pool = "open"
                /\ th' = [th EXCEPT !.pc = "body", !.conn = TRUE, !.began = TRUE, !.tx = db,
                                    !.stmts = ThreadStmts]
                /\ used' = used + 1
    /\ UNCHANGED <<feed, pool, db, QUEUE, unfinished, w, sd, http, db0>>

\* the first k statements executed in order on the open transaction
RECURSIVE ExecPrefix(_, _, _, _)
ExecPrefix(tx, customer_id, stmts, k) ==
    IF k = 0
    THEN [tx |-> tx, customer_id |-> customer_id]
    ELSE LET before == ExecPrefix(tx, customer_id, stmts, k - 1)
         IN  ExecStmt(before.tx, before.customer_id, stmts[k])

\* the body of the with block.  The statements take effect in the open
\* transaction only, so their interleaving with the event loop cannot be
\* observed and the body is one step: either every statement executes, or
\* the first k do and the next raises (connection lost, a constraint the
\* statement does not name, the connection closed under it) and control
\* passes to the except clause of get_connection.
ThreadExec ==
    /\ th.pc = "body"
    /\ \E k \in 0 .. Len(th.stmts) :
          LET r == ExecPrefix(th.tx, th.customer_id, th.stmts, k)
          IN  /\ k = Len(th.stmts) => pool = "open"
              /\ th' = [th EXCEPT !.tx = r.tx, !.customer_id = r.customer_id, !.i = k,
                                  !.exc = (k < Len(th.stmts)),
                                  !.pc = IF k = Len(th.stmts) THEN "commit" ELSE "rollback"]
    /\ UNCHANGED <<feed, pool, used, db, QUEUE, unfinished, w, sd, http, db0>>

\* db.py:60: conn.commit() makes the transaction's rows the committed
\* state, or raises.  When it raises, the server has either not committed
\* or has committed and the connection broke before the client was told;
\* get_connection cannot tell the two apart.
ThreadCommit ==
    /\ th.pc = "commit"
    /\ \/ /\ pool = "open"
          /\ db' = th.tx
          /\ th' = [th EXCEPT !.pc = "putconn"]
       \/ /\ th' = [th EXCEPT !.pc = "rollback", !.exc = TRUE]
          /\ UNCHANGED db
       \/ /\ pool = "open"
          /\ db' = th.tx
          /\ th' = [th EXCEPT !.pc = "rollback", !.exc = TRUE]
    /\ UNCHANGED <<feed, pool, used, QUEUE, unfinished, w, sd, http, db0>>

\* db.py:61-64: conn.rollback() discards the transaction; whether or not
\* rollback itself raises, an exception leaves the with block
ThreadRollback ==
    /\ th.pc = "rollback"
    /\ th' = [th EXCEPT !.pc = "putconn", !.tx = EmptyDb, !.customer_id = 0]
    /\ UNCHANGED <<feed, pool, used, db, QUEUE, unfinished, w, sd, http, db0>>

\* db.py:65-66: finally pool.putconn(conn); with the pool closed (and the
\* global reset to None) this raises and the connection is not returned.
\* save_failed_payload swallows whatever was raised (db.py:111-113).
ThreadPutConn ==
    /\ th.pc = "putconn"
    /\ IF pool = "open"
       THEN /\ used' = used - 1
            /\ th' = [th EXCEPT !.pc = "done", !.conn = FALSE, !.tx = EmptyDb,
                                !.customer_id = 0, !.stmts = << >>,
                                !.raised = Propagates(th.fn, th.exc)]
       ELSE /\ UNCHANGED used
            /\ th' = [th EXCEPT !.pc = "done", !.exc = TRUE, !.tx = EmptyDb,
                                !.customer_id = 0, !.stmts = << >>,
                                !.raised = Propagates(th.fn, TRUE)]
    /\ UNCHANGED <<feed, pool, db, QUEUE, unfinished, w, sd, http, db0>>

(***************************************************************************)
(* main.py: shutdown.                                                      *)
(***************************************************************************)
\* main.py:78-81: WORKER_TASK.cancel(), then await WORKER_TASK
ShutdownCancel ==
    /\ w.pc # "not_started"
    /\ sd = "idle"
    /\ sd' = "cancel_sent"
    /\ UNCHANGED <<feed, pool, used, db, QUEUE, unfinished, w, th, http, db0>>

\* main.py:84 with db.py:43-49: once the worker task has ended, close_pool
\* runs pool.closeall(), which closes every connection, checked out or not,
\* and resets the global to None
ShutdownClosePool ==
    /\ sd = "cancel_sent"
    /\ w.pc = "stopped"
    /\ pool' = "closed"
    /\ sd' = "done"
    /\ UNCHANGED <<feed, used, db, QUEUE, unfinished, w, th, http, db0>>

WorkerNext == WorkerDequeue \/ WorkerInsertDone \/ WorkerSaveDone \/ WorkerCancelled

ThreadNext ==
    ThreadGetConn \/ ThreadExec \/ ThreadCommit \/ ThreadRollback \/ ThreadPutConn

Next ==
    \/ Startup
    \/ \E body \in feed : Webhook(body)
    \/ WorkerDequeue
    \/ WorkerInsertDone
    \/ WorkerSaveDone
    \/ WorkerCancelled
    \/ ThreadGetConn
    \/ ThreadExec
    \/ ThreadCommit
    \/ ThreadRollback
    \/ ThreadPutConn
    \/ ShutdownCancel
    \/ ShutdownClosePool

Spec == Init /\ [][Next]_vars

\* the event loop keeps running the worker while it can run, and a helper
\* thread keeps running until its function returns
FairSpec == Spec /\ WF_vars(WorkerNext) /\ WF_vars(ThreadNext)

(***************************************************************************)
(* Properties.                                                             *)
(***************************************************************************)
Last(seq) == seq[Len(seq)]

\* the worker is suspended on a helper thread that has just finished
Returned(fn) ==
    /\ w.pc \in {"await_insert", "await_save_validation", "await_save_insert"}
    /\ th.fn = fn
    /\ th.pc = "done"

\* the payload has a properties object without the Order section
MissingOrder(raw) ==
    IF IsSome(raw.properties) THEN ~IsSome(The(raw.properties).Order) ELSE FALSE

\* C1 (no-loss guarantee): when the worker has processed a payload whose
\* properties.Order is missing and the failure-sink insert succeeded, every
\* business table is as it was when the payload was dequeued and
\* failed_payloads has exactly one more row, holding the raw payload.
C1_NoLossOnMissingOrder ==
    (/\ Returned("save_failed_payload")
     /\ ~th.exc
     /\ MissingOrder(The(w.cur)))
    => /\ \A t \in BusinessTables : db[t] = db0[t]
       /\ Len(db.failed_payloads) = Len(db0.failed_payloads) + 1
       /\ SubSeq(db.failed_payloads, 1, Len(db0.failed_payloads)) = db0.failed_payloads
       /\ Last(db.failed_payloads).payload = The(w.cur)

\* a payload without Order was processed and captured, after an earlier
\* payload had put rows into the business tables
C1_Witness ==
    /\ Returned("save_failed_payload")
    /\ ~th.exc
    /\ MissingOrder(The(w.cur))
    /\ db.orders # << >>
    /\ Last(db.failed_payloads).payload = PNoOrder

\* insert_data has raised after its transaction was opened
WriteFailed == th.fn = "insert_data" /\ th.pc = "done" /\ th.began /\ th.exc

\* C2 (transactional atomicity): whenever insert_data has raised after its
\* transaction was opened, the committed database is as it was when the
\* payload was dequeued; and the worker's next step hands the raw payload to
\* the failure sink.
C2_AtomicWriteThenCapture ==
    /\ [](WriteFailed => db = db0)
    /\ [][(WriteFailed /\ w'.pc # w.pc)
          => /\ w'.pc = "await_save_insert"
             /\ th'.fn = "save_failed_payload"
             /\ th'.arg = w.cur]_vars

\* the rows of table tbl that a natural key names
RowsWithKey(tbl, key) == {i \in DOMAIN db[tbl] : Key(tbl, db[tbl][i]) = key}

\* C3 (idempotent re-delivery): in every committed state each natural key
\* names exactly one row of its table, whatever was delivered and however
\* often; and when a write has committed, the customers row of the
\* payload's (phone, gstin) carries the name and address just delivered.
C3_OneRowPerNaturalKey ==
    /\ \A tbl \in BusinessTables :
          \A i \in DOMAIN db[tbl] :
             Cardinality(RowsWithKey(tbl, Key(tbl, db[tbl][i]))) = 1
    /\ (Returned("insert_data") /\ ~th.exc)
       => LET c == The(The(The(w.cur).properties).Customer)
          IN  \E i \in DOMAIN db.customers :
                 /\ db.customers[i].phone = c.phone
                 /\ db.customers[i].gstin = c.gstin
                 /\ db.customers[i].name = c.name
                 /\ db.customers[i].address = c.address

\* this step answered a request
Answered == Len(http') = Len(http) + 1

\* the step enqueued the payload of one of the run's JSON objects
Enqueued == \E b \in feed : b.kind = "object" /\ QUEUE' = Append(QUEUE, The(b.payload))

\* C4 (queue backpressure): the queue never holds more than MAX_QUEUE
\* payloads; an enqueue with fewer than MAX_QUEUE waiting appends the
\* payload, and one with MAX_QUEUE waiting is refused at once (503) and
\* leaves the queue as it was.
C4_QueueBackpressure ==
    /\ [](Len(QUEUE) <= MAX_QUEUE)
    /\ [][(Answered /\ Last(http').kind = "object")
          => IF Len(QUEUE) < MAX_QUEUE
             THEN Enqueued /\ Last(http').status # 503
             ELSE QUEUE' = QUEUE /\ Last(http').status = 503]_vars

\* capacity 2, worker stalled: success, success, rejection
C4_Witness ==
    /\ MAX_QUEUE >= 1
    /\ Len(http) = MAX_QUEUE + 1
    /\ \A i \in 1 .. MAX_QUEUE : http[i].status = 200
    /\ Last(http).status = 503
    /\ Len(QUEUE) = MAX_QUEUE
    /\ unfinished = MAX_QUEUE
    /\ w.pc = "get"

\* well-formed except that order.total is a non-numeric string: with the
\* total left out the payload validates and passes insert_data's checks
TotalNotNumeric(raw) ==
    IF MissingOrder(raw) \/ ~IsSome(raw.properties)
    THEN FALSE
    ELSE LET props == The(raw.properties)
             fixed == [properties |->
                         Some([props EXCEPT !.Order = Some([The(@) EXCEPT !.total = JNull])])]
         IN  /\ The(props.Order).total = JText
             /\ ~ValidationError(fixed)
             /\ ~fail_fast(parse_WebhookPayload(fixed))

\* C5 (partial-data tolerance): a payload that is well-formed except for a
\* non-numeric order.total is not handed to the failure sink as a
\* validation failure; once the worker has processed it the orders table
\* holds its row, with total null.
C5_NonNumericTotalStored ==
    (IsSome(w.cur) /\ TotalNotNumeric(The(w.cur)))
    => /\ w.pc # "await_save_validation"
       /\ (Returned("insert_data") /\ ~th.exc)
          => LET props == The(The(w.cur).properties)
             IN  \E i \in DOMAIN db.orders :
                    /\ db.orders[i].order_id = as_int(The(props.Order).orderID)
                    /\ db.orders[i].rest_id = The(props.Restaurant).restID
                    /\ db.orders[i].total = SqlNull

\* C6 (compound dedup): part_payments never holds two rows of the same
\* (order_id, rest_id, payment_type, amount).
C6_PartPaymentsCollapse ==
    \A i, j \in DOMAIN db.part_payments :
       Key("part_payments", db.part_payments[i]) = Key("part_payments", db.part_payments[j])
       => i = j

\* the mapping of POST /webhook's responses, with `accepted` the status of
\* an accepted request
ResponseMapping(accepted) ==
    Answered =>
       LET e == Last(http')
       IN  IF e.kind # "object"
           THEN e.status = 400 /\ QUEUE' = QUEUE
           ELSE IF Len(QUEUE) >= MAX_QUEUE
           THEN e.status = 503 /\ QUEUE' = QUEUE
           ELSE e.status = accepted /\ e.json = [status |-> "accepted"] /\ Enqueued

\* C7 as claimed: an accepted request is answered 202
C7_ResponseMapping202 == [][ResponseMapping(202)]_vars

\* C7, amended: 400 for a body that is not JSON or not an object, 503 for a
\* JSON object when the queue is full, both leaving the queue unchanged;
\* 200 with {"status": "accepted"} when the queue has room, the raw payload
\* appended to the queue whether or not it would validate.
C7_ResponseMapping200 == [][ResponseMapping(200)]_vars

\* a body that is not JSON was refused, and a payload that fails validation
\* was accepted and sits in the queue
C7_Witness ==
    /\ \E i \in DOMAIN http : http[i].kind = "not_json" /\ http[i].status = 400
    /\ Last(http).kind = "object" /\ Last(http).status = 200
    /\ ValidationError(Last(QUEUE))

\* C8 (worker resilience): the worker task ends only after shutdown has
\* cancelled it, whatever failed while it handled a payload; after a
\* payload's helper thread has returned the worker is back at the dequeue
\* step (or handing the payload to the failure sink); and, under fairness,
\* whenever accepted payloads are outstanding the worker eventually is
\* done with all of them, unless shutdown begins.
C8_WorkerResilience ==
    /\ [](w.pc = "stopped" => sd # "idle")
    /\ [][(w.pc # w'.pc /\ w.pc \in {"await_save_validation", "await_save_insert"})
          => w'.pc \in {"get", "stopped"}]_vars
    /\ (unfinished > 0) ~> (unfinished = 0 \/ sd # "idle")

\* a write has committed for a payload that was dequeued after an earlier
\* payload had failed and been captured
C8_Witness ==
    /\ Returned("insert_data")
    /\ ~th.exc
    /\ db0.failed_payloads # << >>
    /\ db.orders # << >>
    /\ sd = "idle"

\* C9 (accepted payloads are not dropped): when shutdown has completed, no
\* accepted payload is left in the queue without an outcome.
C9_NothingLeftQueuedAtShutdown == sd = "done" => QUEUE = << >>

\* C10 (pool teardown waits for in-flight work): the pool is never closed
\* while the helper thread holds a connection.
C10_PoolClosedOnlyWhenIdle == pool = "closed" => ~th.conn

\* the helper thread is between getconn and putconn
InTransaction == th.pc \in {"body", "commit", "rollback", "putconn"}

\* C11 (cancellation only at the dequeue): the worker task ends only from
\* its wait on QUEUE.get(); once it has ended, no helper thread it started
\* is still running and no failed write is left without its capture.
C11_CancelOnlyAtDequeue ==
    /\ [][(w'.pc = "stopped" /\ w.pc # "stopped") => w.pc = "get"]_vars
    /\ [](w.pc = "stopped" => (th.pc \in {"idle", "done"} /\ ~WriteFailed))

\* C12 (at most one in-flight write transaction): never more than one
\* connection is checked out, and it is the helper thread's; a helper
\* thread is started only when the one before it has returned; and the
\* worker takes a payload from the queue only when no thread is left and no
\* connection is checked out.
C12_OneWriterAtATime ==
    /\ [](used <= 1)
    /\ [](used = 1 => th.conn)
    /\ [][(th' # th /\ th'.pc \in {"idle", "start"}) => th.pc \in {"idle", "done"}]_vars
    /\ [][(w.pc = "get" /\ w'.pc \notin {"get", "stopped"})
          => (th = NoThread /\ used = 0)]_vars

\* the capture of a failed write has its transaction open while the next
\* payload waits in the queue
C12_Witness ==
    /\ w.pc = "await_save_insert"
    /\ th.fn = "save_failed_payload"
    /\ th.pc = "body"
    /\ used = 1
    /\ QUEUE # << >>

\* C13 (no connection leak): whenever the helper thread is not inside a
\* transaction, no connection is checked out of the pool.
C13_NoConnectionLeak == ~InTransaction => used = 0

\* seq is an initial part of seq2
IsPrefix(seq, seq2) == Len(seq) <= Len(seq2) /\ SubSeq(seq2, 1, Len(seq)) = seq

\* C14 (failure sink containment): save_failed_payload returns normally
\* whatever failed inside it, and the worker goes on to the next dequeue;
\* every stored error text has at most ERROR_MAX characters; a stored
\* capture is never removed; the commit of a capture adds the row of its
\* payload to failed_payloads and changes nothing else; and when the
\* capture of a failed write has succeeded, failed_payloads has gained
\* exactly the row of this payload since it was dequeued.
C14_SinkContainment ==
    /\ []((th.fn = "save_failed_payload" /\ th.pc = "done") => ~th.raised)
    /\ [](\A i \in DOMAIN db.failed_payloads : db.failed_payloads[i].error.len <= ERROR_MAX)
    /\ [][(th.fn = "save_failed_payload" /\ db' # db)
          => /\ \A t \in BusinessTables : db'[t] = db[t]
             /\ Len(db'.failed_payloads) = Len(db.failed_payloads) + 1
             /\ Last(db'.failed_payloads).payload = The(th.arg)]_vars
    /\ []((Returned("save_failed_payload") /\ ~th.exc /\ w.pc = "await_save_insert")
          => /\ Len(db.failed_payloads) = Len(db0.failed_payloads) + 1
             /\ Last(db.failed_payloads).payload = The(w.cur))
    /\ [][IsPrefix(db.failed_payloads, db'.failed_payloads)]_vars
    /\ [][(w.pc \in {"await_save_validation", "await_save_insert"}
           /\ w'.pc # w.pc /\ ~Cancelling) => w'.pc = "get"]_vars

\* an earlier capture was stored with its error text cut to ERROR_MAX
\* characters, and the capture of the current payload has failed inside
\* save_failed_payload, which returned
C14_Witness ==
    /\ Returned("save_failed_payload")
    /\ th.exc
    /\ ~th.raised
    /\ \E i \in DOMAIN db.failed_payloads : db.failed_payloads[i].error.len = ERROR_MAX

\* the payload lacks the restaurant, customer or order section, or its
\* rest_id is not a non-empty text, or its order_id is not an integer
MustReject(raw) ==
    IF ~IsSome(raw.properties)
    THEN TRUE
    ELSE LET props == parse_Properties(The(raw.properties))
         IN  IF ~IsSome(props.Restaurant) \/ ~IsSome(props.Customer) \/ ~IsSome(props.Order)
             THEN TRUE
             ELSE \/ The(props.Restaurant).restID \in {None, ""}
                  \/ as_int(The(props.Order).orderID) = SqlNull

\* C15 (fail-fast rejection): insert_data, given such a payload, never
\* acquires a connection or opens a transaction, and ends by raising with
\* the database as it was.
C15_FailFastRejects ==
    (th.fn = "insert_data" /\ MustReject(The(th.arg)))
    => /\ ~th.began
       /\ ~th.conn
       /\ th.pc = "done" => (th.exc /\ db = db0)

\* the payload has no properties, or its properties lack one of the
\* Restaurant, Customer, Order and OrderItem keys
MissingRequired(raw) ==
    IF ~IsSome(raw.properties)
    THEN TRUE
    ELSE LET props == The(raw.properties)
         IN  \/ ~IsSome(props.Restaurant)
             \/ ~IsSome(props.Customer)
             \/ ~IsSome(props.Order)
             \/ ~IsSome(props.OrderItem)

\* C16 (required sections at validation): a payload that lacks a required
\* section fails validation, and while the worker handles it the worker is
\* handing it to the failure sink as a validation failure; insert_data is
\* never called with it.
C16_RequiredSectionsAtValidation ==
    (IsSome(w.cur) /\ MissingRequired(The(w.cur)))
    => /\ ValidationError(The(w.cur))
       /\ w.pc \in {"await_save_validation", "stopped"}
       /\ th.fn # "insert_data"

\* C17 (insert-or-skip frame): no step removes or changes a committed row
\* of restaurants, orders, taxes, discounts, order_items, addons,
\* part_payments or failed_payloads, rows are only added after them; no
\* customers row is removed, and of a customers row only name and address
\* change.
C17_InsertOrSkipFrame ==
    [][/\ \A tbl \in (BusinessTables \ {"customers"}) \cup {"failed_payloads"} :
             IsPrefix(db[tbl], db'[tbl])
       /\ Len(db.customers) <= Len(db'.customers)
       /\ \A i \in DOMAIN db.customers :
             /\ db'.customers[i].customer_id = db.customers[i].customer_id
             /\ db'.customers[i].phone = db.customers[i].phone
             /\ db'.customers[i].gstin = db.customers[i].gstin]_vars

\* the second delivery of an order, every attribute changed, has committed:
\* restaurants, orders and taxes are as before, a discount was added and
\* the customer took the new name
C17_Witness ==
    /\ Returned("insert_data")
    /\ ~th.exc
    /\ The(w.cur) = PAgain
    /\ db0.orders # << >>
    /\ db.orders = db0.orders
    /\ db.restaurants = db0.restaurants
    /\ db.taxes = db0.taxes
    /\ db.discounts # db0.discounts
    /\ db.customers # db0.customers
    /\ Len(db.customers) = 1

\* C18 (customer dedup with stable id): customers never holds two rows of
\* the same (phone, gstin), nor two rows of the same customer_id; and when
\* a write has committed, the one customers row of the payload's (phone,
\* gstin) carries the delivered name and address and the id it had before,
\* if it existed before.
C18_CustomerDedupStableId ==
    /\ \A i, j \in DOMAIN db.customers :
          (\/ Key("customers", db.customers[i]) = Key("customers", db.customers[j])
           \/ db.customers[i].customer_id = db.customers[j].customer_id)
          => i = j
    /\ (Returned("insert_data") /\ ~th.exc)
       => LET c == The(The(The(w.cur).properties).Customer)
              now == {i \in DOMAIN db.customers : Key("customers", db.customers[i]) = Key("customers", c)}
              was == {i \in DOMAIN db0.customers : Key("customers", db0.customers[i]) = Key("customers", c)}
          IN  /\ Cardinality(now) = 1
              /\ \A i \in now : db.customers[i].name = c.name /\ db.customers[i].address = c.address
              /\ \A i \in now, j \in was : db.customers[i].customer_id = db0.customers[j].customer_id

\* the place of a table in insert_data's order of writing
Rank(tbl) ==
    CASE tbl = "restaurants" -> 1
      [] tbl = "customers" -> 2
      [] tbl = "orders" -> 3
      [] tbl = "taxes" -> 4
      [] tbl = "discounts" -> 5
      [] tbl \in {"order_items", "addons"} -> 6
      [] tbl = "part_payments" -> 7

\* restaurant, customer, order, taxes, discounts, each item followed by its
\* addons, part payments
WriteOrder(stmts) ==
    /\ Len(stmts) >= 3
    /\ \A i \in 1 .. 3 : Rank(stmts[i].tbl) = i
    /\ \A i \in 4 .. Len(stmts) : Rank(stmts[i].tbl) >= 4
    /\ \A i \in 1 .. Len(stmts) - 1 : Rank(stmts[i].tbl) <= Rank(stmts[i + 1].tbl)
    /\ \A i \in 1 .. Len(stmts) :
          stmts[i].tbl = "addons"
          => \E j \in 1 .. i - 1 :
                /\ stmts[j].tbl = "order_items"
                /\ stmts[j].row.itemid = stmts[i].row.itemid
                /\ \A k \in j + 1 .. i : stmts[k].tbl = "addons"

\* every row of d has the rows it refers to
RefIntegrity(d) ==
    /\ \A i \in DOMAIN d.orders :
          /\ \E j \in DOMAIN d.restaurants : d.restaurants[j].rest_id = d.orders[i].rest_id
          /\ \E j \in DOMAIN d.customers :
                d.customers[j].customer_id = d.orders[i].customer_id
    /\ \A tbl \in {"taxes", "discounts", "order_items", "part_payments"} :
          \A i \in DOMAIN d[tbl] :
             \E j \in DOMAIN d.orders :
                /\ d.orders[j].order_id = d[tbl][i].order_id
                /\ d.orders[j].rest_id = d[tbl][i].rest_id
    /\ \A i \in DOMAIN d.addons :
          \E j \in DOMAIN d.order_items :
             /\ d.order_items[j].itemid = d.addons[i].itemid
             /\ d.order_items[j].order_id = d.addons[i].order_id
             /\ d.order_items[j].rest_id = d.addons[i].rest_id

\* C19 (referential integrity by write order): the statements of a running
\* insert_data are in the order restaurant, customer, order, taxes,
\* discounts, each item followed by its addons, part payments; commit is
\* reached only after all of them; and in every committed state each row
\* has its parent rows.
C19_RefIntegrityByWriteOrder ==
    /\ (th.fn = "insert_data" /\ th.pc \in {"body", "commit"}) => WriteOrder(th.stmts)
    /\ (th.fn = "insert_data" /\ th.pc = "commit")
       => (th.i = Len(th.stmts) /\ RefIntegrity(th.tx))
    /\ RefIntegrity(db)

\* the re-delivery of an order has committed a discount for the orders row
\* of the first delivery, whose item, addon, tax and part payment are there
C19_Witness ==
    /\ Returned("insert_data")
    /\ ~th.exc
    /\ The(w.cur) = PAgain
    /\ db.orders = db0.orders
    /\ db.discounts # << >>
    /\ db.addons # << >>
    /\ db.taxes # << >>
    /\ db.part_payments # << >>

\* C20 (FIFO processing): the queue changes only by an accepted payload
\* joining at its tail or by the worker taking its head; the payload the
\* worker starts to process is always the oldest one waiting; and it takes
\* one only when the payload before it is finished, with no helper thread
\* left from it.
C20_FifoProcessing ==
    /\ [][QUEUE' # QUEUE
          => \/ Enqueued /\ UNCHANGED w
             \/ /\ QUEUE # << >>
                /\ QUEUE' = Tail(QUEUE)
                /\ w'.cur = Some(Head(QUEUE))]_vars
    /\ [][(w'.cur # w.cur /\ IsSome(w'.cur))
          => /\ QUEUE # << >>
             /\ w'.cur = Some(Head(QUEUE))
             /\ QUEUE' = Tail(QUEUE)
             /\ w.cur = Absent
             /\ th.pc = "idle"]_vars

\* two different payloads were accepted while the worker was busy with a
\* third; that one is finished, the older of the two is being processed and
\* the other still waits
C20_Witness ==
    /\ Len(http) = 3
    /\ \A i \in 1 .. 3 : http[i].status = 200
    /\ IsSome(w.cur)
    /\ w.pc = "await_insert"
    /\ Len(QUEUE) = 1
    /\ The(w.cur) # Head(QUEUE)
    /\ db.orders # << >>

\* the payload the worker holds has been recorded in failed_payloads
Captured ==
    /\ IsSome(w.cur)
    /\ Len(db.failed_payloads) > Len(db0.failed_payloads)
    /\ Last(db.failed_payloads).payload = The(w.cur)

\* C21 (exclusive outcome per payload): when the payload the worker holds
\* has been recorded in failed_payloads, no business row has been committed
\* since it was dequeued.
C21_ExclusiveOutcome == Captured => \A t \in BusinessTables : db[t] = db0[t]

====
